---- MODULE Spec2Model ----
(***************************************************************************)
(* caddy-local-dns: the App (provider registry), the Handler (request      *)
(* adapter) and handleDomain (reconciliation engine) of src/module.go.     *)
(*                                                                         *)
(* Strings that the code only compares are TLA+ strings.  A request host   *)
(* is a sequence of one-character strings, because ServeHTTP cuts it at    *)
(* its last colon.  An IP text is the sequence of its dot-separated        *)
(* decimal fields (<<192,168,1,50>> is "192.168.1.50", <<>> is ""),        *)
(* because net.ParseIP decides on the number and range of the fields.      *)
(***************************************************************************)
EXTENDS Integers, Sequences, FiniteSets, TLC

\* ------------------------------------------------------------------ bounds
MaxRequests == 2
MaxHostLen == 4

\* ------------------------------------------------------------ value spaces
EmptyStr == <<>>
IPDefault == <<192, 168, 1, 50>>
IPOther == <<10, 0, 0, 1>>
IPMalformed == <<999, 1, 1, 1>>

CaddyIPs == {EmptyStr, IPDefault, IPMalformed}
IPOverrides == {EmptyStr, IPOther, IPMalformed}
ValidIPs == {IPDefault, IPOther}

ProviderNames == {"opnsense", "backup"}
ProviderTypes == {"opnsense", "pihole"}
HandlerProviders == {"", "opnsense", "backup"}
Handlers == {"h1", "h2"}

\* h2 is a site block as the Caddyfile writes it (a provider name and no
\* override); h1 ranges over the provider names and overrides, a handler
\* without a provider name having no override either.
HandlerConfigs ==
    {[h \in Handlers |-> IF h = "h1" THEN c ELSE [Provider |-> "opnsense", IPOverride |-> EmptyStr]] :
        c \in {x \in [Provider : HandlerProviders, IPOverride : IPOverrides] :
                  x.Provider = "" => x.IPOverride = EmptyStr}}

Hosts == {<<"a", ":", "8">>, <<"b">>}

Absent == [present |-> FALSE]
Rec(ip, enabled) == [present |-> TRUE, IP |-> ip, Enabled |-> enabled]
RecordValues == {Absent, Rec(IPDefault, FALSE), Rec(IPOther, TRUE)}

\* ProviderConfig (module.go 33-40): only Type varies; the connection
\* attributes are fixed per name.
Config(name, type) ==
    [Type |-> type, Hostname |-> name, APIKey |-> "key", APISecret |-> "secret",
     DNSService |-> "unbound", Insecure |-> (name = "backup")]

\* "opnsense" is always configured, "backup" may be; each of either type.
ProviderMaps ==
    UNION {[S -> ProviderTypes] : S \in {T \in SUBSET ProviderNames : "opnsense" \in T}}

VARIABLES
    Providers,   \* App.Providers: name -> provider type (configuration)
    CaddyIP,     \* App.CaddyIP
    Debug,       \* App.Debug
    clients,     \* App.clients: name -> live instance
    appState,    \* "new" | "ok" | "failed": App.Provision not run / returned nil / error
    appErr,      \* the error App.Provision returned
    appLog,      \* a.logger: the entries written by App.Provision
    hcfg,        \* Handler.Provider, Handler.IPOverride per handler
    hstate,      \* Handler.Provision: "new" | "ok" | "no_app" | "no_name" | "not_found"
    records,     \* backend state: provider name -> domain -> record or Absent
    reqs,        \* the requests being served
    log,         \* provider operations in the order the backends saw them
                 \* (each request keeps its own in reqs[r].calls)
    probe,       \* one r.Host and the domain ServeHTTP cuts from it
    twin         \* App.Provision of the same configuration and the same
                 \* constructor outcomes with the debug flag the other way

vars == <<Providers, CaddyIP, Debug, clients, appState, appErr, appLog, hcfg,
          hstate, records, reqs, log, probe, twin>>

cfgVars == <<Providers, CaddyIP, Debug, hcfg>>

\* ------------------------------------------------------------ pure helpers
\* net.ParseIP(ip) != nil, for dotted-decimal text.
ParseIP(ip) == Len(ip) = 4 /\ \A i \in 1..4 : ip[i] >= 0 /\ ip[i] <= 255

\* strings.LastIndex(s, c): 0-based index of the last c in s, or -1.
LastIndex(s, c) ==
    LET hits == {i \in 1..Len(s) : s[i] = c}
    IN IF hits = {} THEN -1
       ELSE (CHOOSE i \in hits : \A j \in hits : j <= i) - 1

\* ServeHTTP's domain: r.Host cut at its last colon.
ExtractDomain(host) ==
    LET colonIndex == LastIndex(host, ":")
    IN IF colonIndex # -1 THEN SubSeq(host, 1, colonIndex) ELSE host

Domains == {ExtractDomain(h) : h \in Hosts}

RECURSIVE SeqsOf(_)
\* All orders in which `range` may visit the keys of a map.
SeqsOf(S) ==
    IF S = {} THEN {<<>>}
    ELSE UNION {{<<x>> \o t : t \in SeqsOf(S \ {x})} : x \in S}

\* --------------------------------------------------------------- the state
\* What the backends hold when the server starts: nothing, or one record
\* that an earlier run or another writer left.
InitialRecords ==
    {[p \in ProviderNames |-> [d \in Domains |->
         IF p = "opnsense" /\ d = <<"a">> THEN v ELSE Absent]] : v \in RecordValues}

EmptyRecords == [p \in ProviderNames |-> [d \in Domains |-> Absent]]

\* The debug flag is exercised on one handler configuration and empty
\* backends; the other configurations run without it.
DebugHandlerConfig ==
    [h \in Handlers |-> IF h = "h1" THEN [Provider |-> "backup", IPOverride |-> IPOther]
                        ELSE [Provider |-> "opnsense", IPOverride |-> EmptyStr]]

\* Backends that already hold a record are exercised with both handlers on
\* "opnsense", one with an override and one without.
SharedProviderConfig ==
    [h \in Handlers |-> IF h = "h1" THEN [Provider |-> "opnsense", IPOverride |-> IPOther]
                        ELSE [Provider |-> "opnsense", IPOverride |-> EmptyStr]]

NoTwin == [state |-> "new", err |-> "nil", clients |-> <<>>, logged |-> <<>>]

NoProbe == [host |-> EmptyStr, cut |-> FALSE, domain |-> EmptyStr]

NoRequest ==
    [pc |-> "idle", h |-> "", host |-> EmptyStr, domain |-> EmptyStr,
     ip |-> EmptyStr, existing |-> Absent, action |-> "none", err |-> "nil",
     msgs |-> <<>>, calls |-> <<>>, nextCalls |-> 0, nextArg |-> EmptyStr,
     nextResult |-> "nil", result |-> "nil"]

Init ==
    /\ Providers \in ProviderMaps
    /\ CaddyIP \in CaddyIPs
    /\ Debug \in BOOLEAN
    /\ hcfg \in HandlerConfigs
    /\ records \in InitialRecords
    /\ Debug => hcfg = DebugHandlerConfig /\ records = EmptyRecords
    /\ records # EmptyRecords => hcfg = SharedProviderConfig
    /\ clients = <<>>
    /\ appState = "new"
    /\ appErr = "nil"
    /\ appLog = <<>>
    /\ hstate = [h \in Handlers |-> "new"]
    /\ reqs = [r \in 1..MaxRequests |-> NoRequest]
    /\ log = <<>>
    /\ probe = NoProbe
    /\ twin = NoTwin

\* ------------------------------------------------------------ App.Provision
\* createProvider: `constructs` is whether NewOPNsenseProvider succeeds.
createProvider(name, constructs) ==
    IF Providers[name] = "opnsense"
    THEN IF constructs
         THEN [err |-> "nil", client |-> Config(name, Providers[name])]
         ELSE [err |-> "construction failed", client |-> "nil"]
    ELSE [err |-> "unsupported provider type", client |-> "nil"]

\* The entry a.logger.Info writes for one initialized provider when the
\* debug flag is `debug`.
ProvisionLogEntry(name, debug) ==
    LET config == Config(name, Providers[name])
        fields == [f \in {"name", "type"} |->
                      IF f = "name" THEN name ELSE config.Type]
        debugFields == [f \in {"hostname", "dns_service", "insecure"} |->
                      IF f = "hostname" THEN config.Hostname
                      ELSE IF f = "dns_service" THEN config.DNSService
                      ELSE IF config.Insecure THEN "true" ELSE "false"]
    IN IF debug THEN fields @@ debugFields ELSE fields

\* Mutant: under the debug flag a provider that cannot be created is skipped
\* instead of failing Provision.
ProvisionLoop_DebugSkips(order, up, debug) ==
    LET failing == IF debug THEN {}
                   ELSE {i \in 1..Len(order) : createProvider(order[i], order[i] \in up).err # "nil"}
        stop == IF failing = {} THEN Len(order) + 1
                ELSE CHOOSE i \in failing : \A j \in failing : i <= j
        done == {order[j] : j \in 1..(stop - 1)}
    IN [clients |-> [n \in done |-> createProvider(n, TRUE).client],
        logged |-> [j \in 1..(stop - 1) |-> ProvisionLogEntry(order[j], debug)],
        err |-> IF failing = {} THEN "nil"
                ELSE <<"failed to create provider", order[stop],
                       createProvider(order[stop], order[stop] \in up).err>>]

\* The loop of App.Provision over a.Providers in the order `order`, where
\* `up` are the names whose construction succeeds: it stops at the first
\* entry createProvider fails for and keeps what it stored before.
ProvisionLoop(order, up, debug) ==
    LET failing == {i \in 1..Len(order) : createProvider(order[i], order[i] \in up).err # "nil"}
        stop == IF failing = {} THEN Len(order) + 1
                ELSE CHOOSE i \in failing : \A j \in failing : i <= j
        done == {order[j] : j \in 1..(stop - 1)}
    IN [clients |-> [n \in done |-> createProvider(n, TRUE).client],
        logged |-> [j \in 1..(stop - 1) |-> ProvisionLogEntry(order[j], debug)],
        err |-> IF failing = {} THEN "nil"
                ELSE <<"failed to create provider", order[stop],
                       createProvider(order[stop], order[stop] \in up).err>>]

\* Mutant: caddy_ip is accepted as configured.
InvalidCaddyIP_Unchecked == FALSE

\* The first test of App.Provision: a caddy_ip that is set and does not parse.
InvalidCaddyIP == CaddyIP # EmptyStr /\ ~ParseIP(CaddyIP)

\* App.Provision as it runs when a.Debug is `debug`: what it leaves in
\* a.clients, what it logged and what it returns.
Provision(order, up, debug) ==
    IF InvalidCaddyIP
    THEN [clients |-> <<>>, logged |-> <<>>, err |-> <<"invalid caddy_ip address">>]
    ELSE ProvisionLoop(order, up, debug)

\* The twin is the same call with the flag negated; NewOPNsenseProvider is
\* handed the flag, and succeeds or fails for the same names in both.
AppProvision ==
    /\ appState = "new"
    /\ \E order \in SeqsOf(DOMAIN Providers), up \in SUBSET (DOMAIN Providers) :
         LET out == Provision(order, up, Debug)
             other == Provision(order, up, ~Debug)
         IN /\ clients' = out.clients
            /\ appLog' = out.logged
            /\ appErr' = out.err
            /\ appState' = IF out.err = "nil" THEN "ok" ELSE "failed"
            /\ twin' = [state |-> IF other.err = "nil" THEN "ok" ELSE "failed",
                        err |-> other.err, clients |-> other.clients,
                        logged |-> other.logged]
    /\ UNCHANGED <<cfgVars, hstate, records, reqs, log, probe>>

\* -------------------------------------------------------- Handler.Provision
\* Mutant: Provision without the lookup in h.app.clients.
HandlerProvisionErr_NoLookup(h) ==
    IF hcfg[h].Provider = "" THEN "no_name" ELSE "ok"

\* What Handler.Provision returns once ctx.App has handed over the App.
HandlerProvisionErr(h) ==
    IF hcfg[h].Provider = "" THEN "no_name"
    ELSE IF hcfg[h].Provider \notin DOMAIN clients THEN "not_found"
    ELSE "ok"

\* ctx.App("local_dns") fails when the App could not be provisioned; h.app
\* then stays nil.
HandlerProvision(h) ==
    /\ hstate[h] = "new"
    /\ appState # "new"
    /\ hstate' = [hstate EXCEPT ![h] =
                    IF appState = "failed" THEN "no_app" ELSE HandlerProvisionErr(h)]
    /\ UNCHANGED <<cfgVars, clients, appState, appErr, appLog, records, reqs, log, probe, twin>>

\* h.app is set: the handler can be asked to serve.
AppBound(h) == hstate[h] \in {"ok", "no_name", "not_found"}

\* ------------------------------------------------- the provider's backend
\* provider.DNSService, as the contract states it.  FindRecord reads the
\* record; a write that succeeds leaves an enabled record with the address;
\* a write that fails leaves the backend as it was.  UpdateRecord needs a
\* record to mutate.
FindRecord(p, domain) == records[p][domain]

CreateRecord(p, domain, ip, ok) ==
    IF ok THEN [records EXCEPT ![p][domain] = Rec(ip, TRUE)] ELSE records

UpdateRecord(p, domain, ip, ok) ==
    IF ok /\ records[p][domain].present
    THEN [records EXCEPT ![p][domain] = Rec(ip, TRUE)]
    ELSE records

\* Whether UpdateRecord reports success.
UpdateSucceeds(p, domain, ok) == ok /\ records[p][domain].present

\* ------------------------------------------------------------ handleDomain
\* Mutant: the global caddy_ip takes precedence over the override.
DesiredIP_DefaultFirst(h) ==
    IF CaddyIP = EmptyStr THEN hcfg[h].IPOverride ELSE CaddyIP

\* ip := h.IPOverride, falling back to the global caddy_ip.
DesiredIP(h) ==
    IF hcfg[h].IPOverride = EmptyStr THEN CaddyIP ELSE hcfg[h].IPOverride

\* Mutant: the IP is not validated before the provider is contacted.
PreCheck_NoParse(h) ==
    IF hcfg[h].Provider \notin DOMAIN clients THEN "provider_not_found"
    ELSE IF DesiredIP(h) = EmptyStr THEN "no_ip"
    ELSE "nil"

\* Mutant: the desired IP is checked before the provider is looked up.
PreCheck_IPFirst(h) ==
    IF DesiredIP(h) = EmptyStr THEN "no_ip"
    ELSE IF ~ParseIP(DesiredIP(h)) THEN "invalid_ip"
    ELSE IF hcfg[h].Provider \notin DOMAIN clients THEN "provider_not_found"
    ELSE "nil"

\* The checks of handleDomain before it contacts the provider.
PreCheck(h) ==
    IF hcfg[h].Provider \notin DOMAIN clients THEN "provider_not_found"
    ELSE IF DesiredIP(h) = EmptyStr THEN "no_ip"
    ELSE IF ~ParseIP(DesiredIP(h)) THEN "invalid_ip"
    ELSE "nil"

\* Mutant: a record with the right IP counts as correct though disabled.
Decide_IgnoreEnabled(existing, ip) ==
    IF existing.present
    THEN IF existing.IP = ip THEN "none" ELSE "update"
    ELSE "create"

\* Mutant: a missing record is updated instead of created.
Decide_UpdateWhenAbsent(existing, ip) ==
    IF existing.present /\ existing.IP = ip /\ existing.Enabled THEN "none" ELSE "update"

\* Mutant: no early return for a record that is already correct.
Decide_NoShortcut(existing, ip) ==
    IF existing.present THEN "update" ELSE "create"

\* Mutant: a stale record is created anew instead of updated.
Decide_CreateWhenStale(existing, ip) ==
    IF existing.present /\ existing.IP = ip /\ existing.Enabled THEN "none" ELSE "create"

\* The three-way branch on the record FindRecord returned.
Decide(existing, ip) ==
    IF existing.present
    THEN IF existing.IP = ip /\ existing.Enabled THEN "none" ELSE "update"
    ELSE "create"

\* Mutant: the error of FindRecord is dropped and the nil record is created.
AfterFind_IgnoreError(findOk, existing, ip) ==
    IF ~findOk THEN [err |-> "nil", action |-> "create", existing |-> Absent]
    ELSE [err |-> "nil", action |-> Decide(existing, ip), existing |-> existing]

\* handleDomain from the return of FindRecord to the choice of the write.
AfterFind(findOk, existing, ip) ==
    IF ~findOk THEN [err |-> "find_failed", action |-> "none", existing |-> Absent]
    ELSE [err |-> "nil", action |-> Decide(existing, ip), existing |-> existing]

\* What h.logger records once the branch is taken.
BranchMsg(action) ==
    IF action = "none" THEN "DNS record already exists and is correct"
    ELSE IF action = "update" THEN "updating existing DNS record"
    ELSE "creating new DNS record"

\* One provider operation as the backend saw it, the at-th of all; `seen` is
\* what a successful FindRecord returned.
Event(r, op, p, domain, ip, ok, seen) ==
    [req |-> r, op |-> op, provider |-> p, domain |-> domain, ip |-> ip, ok |-> ok,
     seen |-> seen, at |-> Len(log) + 1]

\* The next handler of the chain: its result depends on the request alone.
NextHandler(host) == IF host = <<"b">> THEN "next_error" ELSE "nil"

\* Mutant: a reconciliation error is returned as the request's error.
ServeResult_ReturnsErr(err, nextResult) == IF err # "nil" THEN err ELSE nextResult

\* What ServeHTTP returns: the result of next.ServeHTTP(w, r).
ServeResult(err, nextResult) == nextResult

\* The tail of ServeHTTP once handleDomain has returned err: the error is
\* logged and the request goes to the next handler.
Forward(q, err) ==
    [q EXCEPT !.pc = "done",
              !.err = err,
              !.msgs = IF err = "nil" THEN @ ELSE Append(@, "failed to handle domain"),
              !.nextCalls = @ + 1,
              !.nextArg = q.host,
              !.nextResult = NextHandler(q.host),
              !.result = ServeResult(err, NextHandler(q.host))]

\* Mutant: every handler talks to the provider named "opnsense".
ProviderOf_Default(h) == "opnsense"

\* The registry key of the client handleDomain calls: h.Provider.
ProviderOf(h) == hcfg[h].Provider

\* Mutant: the lookup takes the client out of the registry.
RegistryAfterLookup_Evicts(h) ==
    [n \in (DOMAIN clients) \ {hcfg[h].Provider} |-> clients[n]]

\* h.app.clients once handleDomain has looked its provider up: the map is
\* indexed, never assigned.
RegistryAfterLookup(h) == clients

\* ServeHTTP up to the first point where it waits for the backend: the
\* domain is cut from r.Host, handleDomain runs its checks and reads the
\* record.  When no write is due, handleDomain returns and the request is
\* forwarded in the same step.
ServeHTTP(r) ==
    /\ reqs[r].pc = "idle"
    /\ IF r = 1 THEN TRUE ELSE reqs[r - 1].pc # "idle"
    /\ \A h \in Handlers : hstate[h] # "new"
    /\ \E h \in Handlers, host \in Hosts, findOk \in BOOLEAN :
         /\ AppBound(h)
         /\ clients' = RegistryAfterLookup(h)
         /\ LET domain == ExtractDomain(host)
                p == ProviderOf(h)
                ip == DesiredIP(h)
                pre == PreCheck(h)
                base == [NoRequest EXCEPT !.h = h, !.host = host, !.domain = domain]
            IN IF pre # "nil"
               THEN /\ reqs' = [reqs EXCEPT ![r] = Forward(base, pre)]
                    /\ log' = log
               ELSE LET out == AfterFind(findOk, FindRecord(p, domain), ip)
                        find == Event(r, "find", p, domain, EmptyStr, findOk,
                                      IF findOk THEN FindRecord(p, domain) ELSE Absent)
                        read == [base EXCEPT
                                   !.ip = ip,
                                   !.calls = <<find>>,
                                   !.existing = out.existing,
                                   !.action = out.action,
                                   !.msgs = IF out.err = "nil"
                                            THEN <<"handling domain", BranchMsg(out.action)>>
                                            ELSE <<"handling domain">>]
                    IN /\ log' = Append(log, find)
                       /\ reqs' = [reqs EXCEPT ![r] =
                                     IF out.action = "none"
                                     THEN Forward(read, out.err)
                                     ELSE [read EXCEPT !.pc = "write"]]
    /\ UNCHANGED <<cfgVars, appState, appErr, appLog, hstate, records, probe, twin>>

\* handleDomain's write, provider.UpdateRecord or provider.CreateRecord; its
\* error is handleDomain's, and ServeHTTP forwards the request.
HandleWrite(r) ==
    /\ reqs[r].pc = "write"
    /\ \E ok \in BOOLEAN :
         LET q == reqs[r]
             p == ProviderOf(q.h)
             done == IF q.action = "update" THEN UpdateSucceeds(p, q.domain, ok) ELSE ok
             write == Event(r, q.action, p, q.domain, q.ip, done, Absent)
         IN /\ records' = IF q.action = "update"
                          THEN UpdateRecord(p, q.domain, q.ip, ok)
                          ELSE CreateRecord(p, q.domain, q.ip, ok)
            /\ log' = Append(log, write)
            /\ reqs' = [reqs EXCEPT ![r] =
                          Forward([q EXCEPT !.calls = Append(@, write)],
                                  IF done THEN "nil" ELSE "write_failed")]
    /\ UNCHANGED <<cfgVars, clients, appState, appErr, appLog, hstate, probe, twin>>

Next ==
    \/ AppProvision
    \/ \E h \in Handlers : HandlerProvision(h)
    \/ \E r \in 1..MaxRequests : ServeHTTP(r)
    \/ \E r \in 1..MaxRequests : HandleWrite(r)

Spec == Init /\ [][Next]_vars

\* ------------------------------------------- the domain of a request host
\* The characters a Host header is made of here, and the hosts of up to
\* MaxHostLen characters.
HostChars == {"a", "8", ":", "[", "]"}

RECURSIVE Texts(_)
Texts(n) ==
    IF n = 0 THEN {<<>>}
    ELSE Texts(n - 1) \cup
         {Append(t, c) : t \in {u \in Texts(n - 1) : Len(u) = n - 1}, c \in HostChars}

\* The shape of a Host header: a name or a bracketed IPv6 literal (which
\* has two colons or more), then optionally a colon and a decimal port.
IsName(t) == Len(t) > 0 /\ \A i \in 1..Len(t) : t[i] \in {"a", "8"}
IsIPv6Literal(t) ==
    /\ Len(t) >= 4 /\ t[1] = "[" /\ t[Len(t)] = "]"
    /\ \A i \in 2..(Len(t) - 1) : t[i] \in {"a", "8", ":"}
    /\ Cardinality({i \in 2..(Len(t) - 1) : t[i] = ":"}) >= 2
IsPort(t) == \A i \in 1..Len(t) : t[i] = "8"
IsHost(t) ==
    \/ IsName(t) \/ IsIPv6Literal(t)
    \/ \E i \in 2..Len(t) :
          /\ t[i] = ":"
          /\ IsName(SubSeq(t, 1, i - 1)) \/ IsIPv6Literal(SubSeq(t, 1, i - 1))
          /\ IsPort(SubSeq(t, i + 1, Len(t)))

HostTexts(n) == {t \in Texts(n) : IsHost(t)}

\* A server that has not been provisioned and is handed one request host.
InitExtract ==
    /\ Providers = [n \in {"opnsense"} |-> "opnsense"]
    /\ CaddyIP = EmptyStr
    /\ Debug = FALSE
    /\ hcfg = DebugHandlerConfig
    /\ records = EmptyRecords
    /\ clients = <<>>
    /\ appState = "new"
    /\ appErr = "nil"
    /\ appLog = <<>>
    /\ hstate = [h \in Handlers |-> "new"]
    /\ reqs = [r \in 1..MaxRequests |-> NoRequest]
    /\ log = <<>>
    /\ probe \in {[host |-> t, cut |-> FALSE, domain |-> EmptyStr] : t \in HostTexts(MaxHostLen)}
    /\ twin = NoTwin

\* The first lines of ServeHTTP: domain := r.Host, cut at its last colon.
ExtractStep ==
    /\ ~probe.cut
    /\ probe' = [probe EXCEPT !.cut = TRUE, !.domain = ExtractDomain(probe.host)]
    /\ UNCHANGED <<cfgVars, clients, appState, appErr, appLog, hstate, records, reqs, log, twin>>

NextExtract == ExtractStep

SpecExtract == InitExtract /\ [][NextExtract]_vars

\* ================================================================= claims
Requests == 1..MaxRequests
IsWrite(e) == e.op \in {"create", "update"}
Calls(r) == reqs[r].calls
Writes(r) == SelectSeq(Calls(r), IsWrite)
Finds(r) == SelectSeq(Calls(r), LAMBDA e : e.op = "find")
Done(r) == reqs[r].pc = "done"
Started(r) == reqs[r].pc # "idle"

\* The desired IP as the specification words it.
WantIP(h) == IF hcfg[h].IPOverride # EmptyStr THEN hcfg[h].IPOverride ELSE CaddyIP
ValidIP(ip) == ip \in ValidIPs
Satisfies(rec, ip) == rec.present /\ rec.IP = ip /\ rec.Enabled

\* r's FindRecord returned successfully; FoundRec(r) is what it returned.
FoundOk(r) == LET f == Finds(r) IN Len(f) = 1 /\ f[1].ok
FoundRec(r) == Finds(r)[1].seen

\* r issued no write / exactly the write op(domain, desired IP) on its provider.
NoWrite(r) == Writes(r) = <<>>
OneWrite(r, op) ==
    LET w == Writes(r)
    IN /\ Len(w) = 1
       /\ w[1].op = op
       /\ w[1].provider = hcfg[reqs[r].h].Provider
       /\ w[1].domain = ExtractDomain(reqs[r].host)
       /\ w[1].ip = WantIP(reqs[r].h)

FirstIdx(r) == Calls(r)[1].at
LastIdx(r) == Calls(r)[Len(Calls(r))].at

\* r1 and r2 reconcile the same (provider, domain, desired IP), r2 after r1
\* has returned, every provider operation of both succeeded, and nobody else
\* wrote the record from r1's read to r2's return.
TwiceInSequence(r1, r2) ==
    /\ r1 # r2 /\ Done(r1) /\ Done(r2)
    /\ reqs[r1].err = "nil" /\ reqs[r2].err = "nil"
    /\ hcfg[reqs[r1].h].Provider = hcfg[reqs[r2].h].Provider
    /\ reqs[r1].domain = reqs[r2].domain
    /\ WantIP(reqs[r1].h) = WantIP(reqs[r2].h)
    /\ LastIdx(r1) < FirstIdx(r2)
    /\ \A i \in FirstIdx(r1)..LastIdx(r2) :
          (IsWrite(log[i]) /\ log[i].provider = hcfg[reqs[r1].h].Provider
                           /\ log[i].domain = reqs[r1].domain)
             => log[i].req \in {r1, r2}

\* C1 (as amended): when handleDomain runs twice in sequence for the same
\* domain and valid desired IP against a stable backend, the first call
\* issues one write unless the record it read already had the desired IP and
\* was enabled (then it issues none), and the second call issues none.
C1_IdempotentAmended ==
    \A r1, r2 \in Requests :
        TwiceInSequence(r1, r2) =>
            /\ Len(Writes(r1)) = IF Satisfies(FoundRec(r1), WantIP(reqs[r1].h)) THEN 0 ELSE 1
            /\ Len(Writes(r2)) = 0

C1_Witness ==
    \E r1, r2 \in Requests :
        TwiceInSequence(r1, r2) /\ Len(Writes(r1)) = 1 /\ Len(Writes(r2)) = 0

\* C1 (as claimed): exactly one write on the first call, none on the second.
C1_IdempotentOriginal ==
    \A r1, r2 \in Requests :
        TwiceInSequence(r1, r2) => Len(Writes(r1)) = 1 /\ Len(Writes(r2)) = 0

\* C2: when FindRecord reports the record absent and the desired IP is valid,
\* handleDomain issues exactly one CreateRecord(domain, desiredIP) and no
\* UpdateRecord; nothing is written before handleDomain reaches its write.
C2_AbsentCreates ==
    \A r \in Requests :
        (Started(r) /\ FoundOk(r) /\ ~FoundRec(r).present /\ ValidIP(WantIP(reqs[r].h)))
            => IF Done(r) THEN OneWrite(r, "create") ELSE NoWrite(r)

C2_Witness ==
    \E r \in Requests :
        /\ Done(r) /\ FoundOk(r) /\ ~FoundRec(r).present
        /\ OneWrite(r, "create") /\ Writes(r)[1].ok

\* C3: when FindRecord returns a record with the desired IP and Enabled,
\* handleDomain issues no write and returns success.
C3_CorrectNoWrite ==
    \A r \in Requests :
        (Started(r) /\ FoundOk(r) /\ Satisfies(FoundRec(r), WantIP(reqs[r].h)))
            => Done(r) /\ NoWrite(r) /\ reqs[r].err = "nil"

C3_Witness ==
    \E r \in Requests :
        Done(r) /\ FoundOk(r) /\ Satisfies(FoundRec(r), WantIP(reqs[r].h)) /\ NoWrite(r)

\* C4: when FindRecord returns a record whose IP differs from the desired IP
\* or that is disabled, handleDomain issues exactly one
\* UpdateRecord(domain, desiredIP) and no CreateRecord.
C4_StaleUpdates ==
    \A r \in Requests :
        (Started(r) /\ FoundOk(r) /\ FoundRec(r).present
            /\ (FoundRec(r).IP # WantIP(reqs[r].h) \/ ~FoundRec(r).Enabled))
            => IF Done(r) THEN OneWrite(r, "update") ELSE NoWrite(r)

C4_Witness ==
    \E r \in Requests :
        /\ Done(r) /\ FoundOk(r) /\ FoundRec(r).present
        /\ FoundRec(r).IP = WantIP(reqs[r].h) /\ ~FoundRec(r).Enabled
        /\ OneWrite(r, "update")

\* C5: whatever reconciliation did, ServeHTTP calls the next handler exactly
\* once, with the original request, and returns the next handler's result;
\* a reconciliation error is never the request's error.
C5_AlwaysForwards ==
    \A r \in Requests :
        /\ ~Done(r) => reqs[r].nextCalls = 0
        /\ Done(r) =>
              /\ reqs[r].nextCalls = 1
              /\ reqs[r].nextArg = reqs[r].host
              /\ reqs[r].result = NextHandler(reqs[r].host)
              /\ reqs[r].result \in {"nil", "next_error"}

C5_Witness ==
    \E r \in Requests :
        /\ Done(r) /\ reqs[r].err = "write_failed"
        /\ reqs[r].nextCalls = 1 /\ reqs[r].result = "nil"

Resolves(h) == hcfg[h].Provider \in DOMAIN clients
NeitherIP(h) == hcfg[h].IPOverride = EmptyStr /\ CaddyIP = EmptyStr
WritesUseWantIP(r) ==
    \A i \in 1..Len(Writes(r)) : Writes(r)[i].ip = WantIP(reqs[r].h)

\* C6 (as amended): every provider write carries the override when it is
\* non-empty and the default IP otherwise; when both are empty no provider
\* operation is called, and reconciliation fails with the no-IP error if
\* the handler's provider name resolves in the registry, with the
\* provider-not-found error if it does not.
C6_PrecedenceAmended ==
    \A r \in Requests :
        Started(r) =>
            /\ WritesUseWantIP(r)
            /\ NeitherIP(reqs[r].h) =>
                  /\ Done(r) /\ Calls(r) = <<>>
                  /\ reqs[r].err = IF Resolves(reqs[r].h) THEN "no_ip"
                                   ELSE "provider_not_found"

C6_Witness ==
    \E r1, r2 \in Requests :
        /\ Done(r1) /\ Len(Writes(r1)) = 1 /\ hcfg[reqs[r1].h].IPOverride # EmptyStr
        /\ Writes(r1)[1].ip = hcfg[reqs[r1].h].IPOverride
        /\ Done(r2) /\ Len(Writes(r2)) = 1 /\ hcfg[reqs[r2].h].IPOverride = EmptyStr
        /\ Writes(r2)[1].ip = CaddyIP

C6_WitnessNoIP ==
    \E r \in Requests :
        Done(r) /\ NeitherIP(reqs[r].h) /\ Resolves(reqs[r].h) /\ reqs[r].err = "no_ip"

\* C6 (as claimed): with both IPs empty reconciliation fails with the no-IP
\* error, whatever the provider name.
C6_PrecedenceOriginal ==
    \A r \in Requests :
        Started(r) =>
            /\ WritesUseWantIP(r)
            /\ NeitherIP(reqs[r].h) =>
                  Done(r) /\ Calls(r) = <<>> /\ reqs[r].err = "no_ip"

\* C7 (as amended): when the desired IP is not a valid IP address, no
\* provider operation is called; handleDomain fails with the invalid-IP
\* error if the IP is non-empty and the provider name resolves, with the
\* no-IP error if the IP is empty and the provider name resolves, and with
\* the provider-not-found error if the name does not resolve.
C7_InvalidIPAmended ==
    \A r \in Requests :
        (Started(r) /\ ~ValidIP(WantIP(reqs[r].h))) =>
            /\ Done(r) /\ Calls(r) = <<>>
            /\ reqs[r].err = IF ~Resolves(reqs[r].h) THEN "provider_not_found"
                             ELSE IF WantIP(reqs[r].h) = EmptyStr THEN "no_ip"
                             ELSE "invalid_ip"

C7_Witness ==
    \E r \in Requests :
        /\ Done(r) /\ WantIP(reqs[r].h) = IPMalformed /\ Resolves(reqs[r].h)
        /\ reqs[r].err = "invalid_ip" /\ Calls(r) = <<>>

\* C7 (as claimed): a desired IP that is not valid makes handleDomain fail
\* with the invalid-IP error before any provider call.
C7_InvalidIPOriginal ==
    \A r \in Requests :
        (Started(r) /\ ~ValidIP(WantIP(reqs[r].h))) =>
            Done(r) /\ Calls(r) = <<>> /\ reqs[r].err = "invalid_ip"

\* C8: when FindRecord fails, handleDomain returns an error and calls
\* neither CreateRecord nor UpdateRecord.
C8_QueryErrorNoWrite ==
    \A r \in Requests :
        (Started(r) /\ Len(Finds(r)) = 1 /\ ~Finds(r)[1].ok) =>
            Done(r) /\ reqs[r].err = "find_failed" /\ Calls(r) = Finds(r)

C8_Witness ==
    \E r \in Requests :
        /\ Done(r) /\ Len(Finds(r)) = 1 /\ ~Finds(r)[1].ok
        /\ reqs[r].err = "find_failed" /\ NoWrite(r)

\* C9: after App.Provision has returned, the registry holds an instance for
\* every configured provider if it succeeded, and none if it failed.
C9_AllOrNothing ==
    /\ appState = "ok" => DOMAIN clients = DOMAIN Providers
    /\ appState = "failed" => DOMAIN clients = {}

\* C10: a handler whose Provision succeeded never gets the
\* provider-not-found error from handleDomain, at any request.
C10_ProvisionedResolves ==
    \A r \in Requests :
        (Started(r) /\ hstate[reqs[r].h] = "ok") => reqs[r].err # "provider_not_found"

C10_Witness ==
    \E r1, r2 \in Requests :
        /\ r1 # r2 /\ Done(r1) /\ Done(r2)
        /\ reqs[r1].h = reqs[r2].h /\ hstate[reqs[r1].h] = "ok"
        /\ Calls(r1) # <<>> /\ Calls(r2) # <<>>

\* A host carries a port when a colon and decimal digits end it, after the
\* name or after the closing bracket of an IPv6 literal.
HasPort(host) ==
    \E i \in 2..Len(host) :
        /\ host[i] = ":" /\ host[i - 1] # ":"
        /\ \A j \in (i + 1)..Len(host) : host[j] = "8"
PortColon(host) ==
    CHOOSE i \in 2..Len(host) :
        /\ host[i] = ":" /\ host[i - 1] # ":"
        /\ \A j \in (i + 1)..Len(host) : host[j] = "8"

\* C11: the domain passed to reconciliation is the request host without its
\* trailing ":port"; a host that carries no port is passed on unchanged.
C11_DomainExtraction ==
    probe.cut =>
        probe.domain = IF HasPort(probe.host)
                       THEN SubSeq(probe.host, 1, PortColon(probe.host) - 1)
                       ELSE probe.host

\* r1 and r2 reconcile the same domain on the same provider towards
\* different valid IPs, and FindRecord showed both the same record, which
\* neither accepts.
SameStaleView(r1, r2) ==
    /\ r1 # r2 /\ Started(r1) /\ Started(r2)
    /\ hcfg[reqs[r1].h].Provider = hcfg[reqs[r2].h].Provider
    /\ ExtractDomain(reqs[r1].host) = ExtractDomain(reqs[r2].host)
    /\ WantIP(reqs[r1].h) # WantIP(reqs[r2].h)
    /\ FoundOk(r1) /\ FoundOk(r2) /\ FoundRec(r1) = FoundRec(r2)
    /\ ~Satisfies(FoundRec(r1), WantIP(reqs[r1].h))
    /\ ~Satisfies(FoundRec(r2), WantIP(reqs[r2].h))

\* r2 read the record between r1's read and r1's write, and wrote last.
Interleaved(r1, r2) ==
    /\ Len(Calls(r1)) = 2 /\ Len(Calls(r2)) = 2
    /\ Calls(r1)[1].at < Calls(r2)[1].at
    /\ Calls(r2)[1].at < Calls(r1)[2].at
    /\ Calls(r1)[2].at < Calls(r2)[2].at

\* log[i] is a write that succeeded; it is the last one on its record.
WroteOk(i) == IsWrite(log[i]) /\ log[i].ok
LastWriteOn(i) ==
    /\ WroteOk(i)
    /\ \A j \in (i + 1)..Len(log) :
          WroteOk(j) => (log[j].provider # log[i].provider \/ log[j].domain # log[i].domain)

\* C12: nothing serialises two reconciliations of one domain: when both saw
\* the record absent both issue CreateRecord, when both saw the same stale
\* record both issue UpdateRecord, each with its own IP, and the record the
\* backend holds carries the IP of the write that reached it last.
C12_RaceLastWriteWins ==
    /\ \A r1, r2 \in Requests :
          (r1 < r2 /\ Done(r1) /\ Done(r2) /\ SameStaleView(r1, r2)) =>
              /\ OneWrite(r1, IF FoundRec(r1).present THEN "update" ELSE "create")
              /\ OneWrite(r2, IF FoundRec(r2).present THEN "update" ELSE "create")
    /\ \A i \in 1..Len(log) :
          LastWriteOn(i) => records[log[i].provider][log[i].domain] = Rec(log[i].ip, TRUE)

\* Both saw the record absent, both created, the later create is what holds.
C12_Witness ==
    \E r1, r2 \in Requests :
        /\ SameStaleView(r1, r2) /\ Interleaved(r1, r2)
        /\ ~FoundRec(r1).present
        /\ Calls(r1)[2].op = "create" /\ Calls(r1)[2].ok
        /\ Calls(r2)[2].op = "create" /\ Calls(r2)[2].ok
        /\ records[hcfg[reqs[r2].h].Provider][reqs[r2].domain] = Rec(WantIP(reqs[r2].h), TRUE)

\* Both saw the same stale record, both updated, the later update is what holds.
C12_WitnessUpdate ==
    \E r1, r2 \in Requests :
        /\ SameStaleView(r1, r2) /\ Interleaved(r1, r2)
        /\ FoundRec(r1).present
        /\ Calls(r1)[2].op = "update" /\ Calls(r1)[2].ok
        /\ Calls(r2)[2].op = "update" /\ Calls(r2)[2].ok
        /\ records[hcfg[reqs[r2].h].Provider][reqs[r2].domain] = Rec(WantIP(reqs[r2].h), TRUE)

\* C13: a caddy_ip that is set and does not parse makes App.Provision fail
\* with the invalid-address error before any provider is constructed or
\* logged; so once Provision has succeeded, a request of a handler without
\* override never fails with the invalid-IP error.
C13_CaddyIPValidatedAtProvision ==
    /\ (appState # "new" /\ CaddyIP # EmptyStr /\ ~ParseIP(CaddyIP)) =>
          /\ appState = "failed"
          /\ appErr = <<"invalid caddy_ip address">>
          /\ clients = <<>>
          /\ appLog = <<>>
    /\ \A r \in Requests :
          (Started(r) /\ appState = "ok" /\ hcfg[reqs[r].h].IPOverride = EmptyStr) =>
              reqs[r].err # "invalid_ip"

\* Provision has run on a malformed caddy_ip while providers were configured.
C13_Witness ==
    /\ appState = "failed"
    /\ CaddyIP = IPMalformed
    /\ DOMAIN Providers # {}

\* After a successful Provision a request without override has reconciled
\* with the global caddy_ip.
C13_WitnessRequest ==
    \E r \in Requests :
        /\ Done(r) /\ appState = "ok"
        /\ hcfg[reqs[r].h].IPOverride = EmptyStr
        /\ CaddyIP # EmptyStr
        /\ Calls(r) # <<>>

\* C14: when the handler's provider name does not resolve in the registry,
\* handleDomain fails with the provider-not-found error whether or not an
\* IP is configured or valid, calls no provider operation, and the request
\* is still handed to the next handler, once, with its host unchanged.
C14_UnresolvedProviderFirst ==
    \A r \in Requests :
        (Started(r) /\ ~Resolves(reqs[r].h)) =>
            /\ Done(r)
            /\ reqs[r].err = "provider_not_found"
            /\ Calls(r) = <<>>
            /\ \A i \in 1..Len(log) : log[i].req # r
            /\ reqs[r].nextCalls = 1
            /\ reqs[r].nextArg = reqs[r].host
            /\ reqs[r].result = reqs[r].nextResult

\* The provider does not resolve and the desired IP is malformed.
C14_Witness ==
    \E r \in Requests :
        /\ Done(r) /\ ~Resolves(reqs[r].h)
        /\ WantIP(reqs[r].h) = IPMalformed
        /\ reqs[r].err = "provider_not_found"
        /\ reqs[r].nextCalls = 1

\* The provider does not resolve and no IP is configured at all.
C14_WitnessNoIP ==
    \E r \in Requests :
        /\ Done(r) /\ ~Resolves(reqs[r].h) /\ NeitherIP(reqs[r].h)
        /\ reqs[r].err = "provider_not_found"

\* The provider does not resolve while the desired IP is valid.
C14_WitnessValidIP ==
    \E r \in Requests :
        /\ Done(r) /\ ~Resolves(reqs[r].h) /\ ValidIP(WantIP(reqs[r].h))
        /\ reqs[r].err = "provider_not_found"

\* C15: once App.Provision has run, no step of a handler or of a request
\* changes the registry of provider clients or the default IP: both are
\* only read.
C15_RegistryReadOnly ==
    [][appState # "new" => (clients' = clients /\ CaddyIP' = CaddyIP)]_vars

\* Requests have looked their provider up and read the default IP, one of
\* them through to a provider write.
C15_Witness ==
    /\ appState = "ok" /\ DOMAIN clients # {} /\ CaddyIP # EmptyStr
    /\ \E r \in Requests :
          /\ Done(r) /\ hcfg[reqs[r].h].IPOverride = EmptyStr
          /\ Len(Writes(r)) = 1 /\ Writes(r)[1].ip = CaddyIP

\* The backends saw the provider operations the requests made, no other.
SeenAreCalls ==
    /\ \A i \in 1..Len(log) : \E j \in 1..Len(Calls(log[i].req)) : Calls(log[i].req)[j] = log[i]
    /\ \A r \in Requests : \A j \in 1..Len(Calls(r)) : log[Calls(r)[j].at] = Calls(r)[j]

\* C16: one handleDomain call reads the provider at most once and writes at
\* most once, the read first; it writes only after a FindRecord that
\* succeeded; a failed operation is not retried and is returned as the
\* call's error.
C16_OneReadOneWrite ==
    /\ SeenAreCalls
    /\ \A r \in Requests :
          Started(r) =>
              LET c == Calls(r)
                  f == Finds(r)
                  w == Writes(r)
              IN /\ Len(c) <= 2 /\ Len(f) <= 1 /\ Len(w) <= 1
                 /\ c # <<>> => c[1].op = "find"
                 /\ w # <<>> => (Len(f) = 1 /\ f[1].ok /\ f[1].at < w[1].at)
                 /\ (c # <<>> /\ ~c[1].ok) =>
                        (Done(r) /\ Len(c) = 1 /\ reqs[r].err = "find_failed")
                 /\ (w # <<>> /\ ~w[1].ok) =>
                        (Done(r) /\ Len(c) = 2 /\ reqs[r].err = "write_failed")
                 /\ (Done(r) /\ reqs[r].err = "nil") =>
                        \A i \in 1..Len(c) : c[i].ok

\* A request read the record, issued its one write, and the write failed.
C16_Witness ==
    \E r \in Requests :
        /\ Done(r) /\ FoundOk(r) /\ Len(Writes(r)) = 1 /\ ~Writes(r)[1].ok
        /\ reqs[r].err = "write_failed"

\* A request whose read failed has returned without writing.
C16_WitnessFindFailed ==
    \E r \in Requests :
        Done(r) /\ Len(Calls(r)) = 1 /\ ~Calls(r)[1].ok /\ reqs[r].err = "find_failed"

\* No request but r wrote r's record since r read it.
NoOtherWriter(r) ==
    \A i \in FirstIdx(r)..Len(log) :
        (IsWrite(log[i]) /\ log[i].provider = hcfg[reqs[r].h].Provider
                         /\ log[i].domain = reqs[r].domain)
            => log[i].req = r

\* C17: when handleDomain returns success and nobody else wrote the record
\* meanwhile, the provider holds a record for the domain that carries the
\* desired IP and is enabled, whether it was absent, had another IP or was
\* disabled before.
C17_Converges ==
    \A r \in Requests :
        (Done(r) /\ reqs[r].err = "nil" /\ NoOtherWriter(r)) =>
            records[hcfg[reqs[r].h].Provider][reqs[r].domain] = Rec(WantIP(reqs[r].h), TRUE)

\* The record had the desired IP but was disabled; the call enabled it.
C17_Witness ==
    \E r \in Requests :
        /\ Done(r) /\ reqs[r].err = "nil" /\ NoOtherWriter(r)
        /\ FoundRec(r) = Rec(WantIP(reqs[r].h), FALSE)
        /\ records[hcfg[reqs[r].h].Provider][reqs[r].domain] = Rec(WantIP(reqs[r].h), TRUE)

\* The record was absent; the call created it.
C17_WitnessAbsent ==
    \E r \in Requests :
        /\ Done(r) /\ reqs[r].err = "nil" /\ NoOtherWriter(r)
        /\ ~FoundRec(r).present
        /\ records[hcfg[reqs[r].h].Provider][reqs[r].domain] = Rec(WantIP(reqs[r].h), TRUE)

\* The record had another IP; the call replaced it.
C17_WitnessWrongIP ==
    \E r \in Requests :
        /\ Done(r) /\ reqs[r].err = "nil" /\ NoOtherWriter(r)
        /\ FoundRec(r).present /\ FoundRec(r).IP # WantIP(reqs[r].h)
        /\ records[hcfg[reqs[r].h].Provider][reqs[r].domain] = Rec(WantIP(reqs[r].h), TRUE)

\* r's own record slot: its handler's provider and the domain of its host.
OwnProvider(r) == hcfg[reqs[r].h].Provider
OwnDomain(r) == ExtractDomain(reqs[r].host)

\* C18: a reconciliation reads and writes only the record of its own domain
\* on its own handler's provider: every provider operation of a request
\* names that provider and that domain, and a step changes no record but
\* the one of the request taking it.
C18_OwnRecordOnly ==
    [][/\ \A i \in 1..Len(log') :
             /\ log'[i].provider = hcfg[reqs'[log'[i].req].h].Provider
             /\ log'[i].domain = ExtractDomain(reqs'[log'[i].req].host)
       /\ \A p \in ProviderNames, d \in Domains :
             records'[p][d] # records[p][d] =>
                 \E r \in Requests :
                     /\ reqs[r].pc = "write" /\ reqs'[r].pc = "done"
                     /\ p = OwnProvider(r) /\ d = OwnDomain(r)]_vars

\* Two requests have written different records, each its own, and the
\* record of the other domain on the other provider is as it was.
C18_Witness ==
    \E r1, r2 \in Requests :
        /\ Done(r1) /\ Done(r2)
        /\ Len(Writes(r1)) = 1 /\ Writes(r1)[1].ok
        /\ Len(Writes(r2)) = 1 /\ Writes(r2)[1].ok
        /\ OwnProvider(r1) # OwnProvider(r2) /\ OwnDomain(r1) # OwnDomain(r2)
        /\ records[OwnProvider(r1)][OwnDomain(r1)] = Rec(WantIP(reqs[r1].h), TRUE)
        /\ records[OwnProvider(r2)][OwnDomain(r2)] = Rec(WantIP(reqs[r2].h), TRUE)
        /\ records[OwnProvider(r1)][OwnDomain(r2)] = Absent

\* What an App.Provision log entry may carry without and with the debug
\* flag, and the secret material of the provider it is about.
PlainFields == {"name", "type"}
DebugFields == {"hostname", "dns_service", "insecure"}
Secrets(name) == {Config(name, Providers[name]).APIKey, Config(name, Providers[name]).APISecret}

\* The entries of one run's provisioning log carry the plain fields, under
\* the flag also the connection attributes, and no secret.
LogsOnly(logged, debug) ==
    \A i \in 1..Len(logged) :
        /\ DOMAIN logged[i] = IF debug THEN PlainFields \cup DebugFields ELSE PlainFields
        /\ \A f \in DOMAIN logged[i] : logged[i][f] \notin Secrets(logged[i]["name"])
        /\ debug =>
              /\ logged[i]["hostname"] = Config(logged[i]["name"], logged[i]["type"]).Hostname
              /\ logged[i]["dns_service"] = Config(logged[i]["name"], logged[i]["type"]).DNSService

C19_WitnessRejected ==
    /\ Debug /\ appState = "failed" /\ Len(appLog) = 1
    /\ twin.state = "failed" /\ Len(twin.logged) = 1

====
